---- MODULE Spec2Model ----
(***************************************************************************)
(* The news-article pipeline of newsapp.py (local scrape, then Clean,      *)
(* Summarize, Extract-Vocabulary) and of newsapp2.py (fetch-and-clean      *)
(* delegated to the model, then Summarize, Extract-Vocabulary), with the   *)
(* retry controller make_gemini_call_with_retry both files share.          *)
(*                                                                         *)
(* One behaviour is one press of the process button: the script runs from  *)
(* the input checks to st.stop() or to its last line.  The network (HTTP   *)
(* GET, genai.Client, generate_content) is the environment: each of its    *)
(* answers is chosen with \E from a small set.  SpecRuns adds the next     *)
(* press of the button, which runs the script again from its top.          *)
(***************************************************************************)
EXTENDS Integers, Sequences, FiniteSets, TLC

VARIABLES
    variant,            \* "newsapp" (newsapp.py) or "newsapp2" (newsapp2.py)
    news_url,           \* st.text_input: the URL typed by the user
    gemini_api_key,     \* st.text_input: the API key typed by the user
    pc,                 \* position of the script
    stage,              \* the stage make_gemini_call_with_retry is running for
    attempt,            \* loop variable of make_gemini_call_with_retry
    response,           \* value make_gemini_call_with_retry returned (at pc = "ret")
    noisy_article_text, \* newsapp.py only
    clean_article_text,
    log,                \* every network request, sleep and st.* output, in order
    hist,               \* per stage: the answers to its generate_content calls
    sleeps,             \* per stage: the durations of its time.sleep calls
    ret,                \* per stage: what make_gemini_call_with_retry returned
    past,               \* the finished runs of the session, oldest first
    max_retries_arg     \* make_gemini_call_with_retry's parameter max_retries

vars == <<variant, news_url, gemini_api_key, pc, stage, attempt, response,
          noisy_article_text, clean_article_text, log, hist, sleeps, ret, past,
          max_retries_arg>>

-----------------------------------------------------------------------------
(* Python values.  A str is kept run-length encoded: a sequence of runs     *)
(* [c, n] (character c repeated n >= 1 times) in which neighbouring runs    *)
(* have different characters, so two strs are equal iff their encodings    *)
(* are.                                                                    *)

None == [ty |-> "None"]
Str(s) == [ty |-> "str", s |-> s]

\* Python truthiness of an Optional[str]: None and "" are falsy.
Truthy(v) == v.ty = "str" /\ v.s # <<>>

Run(c, n) == IF n = 0 THEN <<>> ELSE <<[c |-> c, n |-> n]>>

\* s + t
Concat(s, t) ==
    IF s = <<>> THEN t
    ELSE IF t = <<>> THEN s
    ELSE IF s[Len(s)].c = t[1].c
         THEN SubSeq(s, 1, Len(s) - 1)
                 \o <<[c |-> t[1].c, n |-> s[Len(s)].n + t[1].n]>>
                 \o Tail(t)
         ELSE s \o t

\* the str whose characters are the elements of cs, in order
RECURSIVE Chars(_)
Chars(cs) == IF cs = <<>> THEN <<>> ELSE Concat(Run(cs[1], 1), Chars(Tail(cs)))

\* len(s)
RECURSIVE len(_)
len(s) == IF s = <<>> THEN 0 ELSE s[1].n + len(Tail(s))

\* s[:k]
RECURSIVE Slice(_, _)
Slice(s, k) ==
    IF s = <<>> \/ k <= 0 THEN <<>>
    ELSE IF s[1].n >= k THEN Run(s[1].c, k)
    ELSE <<s[1]>> \o Slice(Tail(s), k - s[1].n)

\* str.startswith(prefix)
startswith(s, prefix) == Slice(s, len(prefix)) = prefix

IsSpace(c) == c \in {" ", "\n"}

RECURSIVE lstrip(_)
lstrip(s) == IF s # <<>> /\ IsSpace(s[1].c) THEN lstrip(Tail(s)) ELSE s

RECURSIVE rstrip(_)
rstrip(s) ==
    IF s # <<>> /\ IsSpace(s[Len(s)].c) THEN rstrip(SubSeq(s, 1, Len(s) - 1)) ELSE s

\* str.strip()
strip(s) == rstrip(lstrip(s))

\* "\n".join(parts)
RECURSIVE join(_)
join(parts) ==
    IF parts = <<>> THEN <<>>
    ELSE IF Len(parts) = 1 THEN parts[1]
    ELSE Concat(Concat(parts[1], Run("\n", 1)), join(Tail(parts)))

\* [p.strip() for p in parts if p.strip()]
RECURSIVE StrippedNonEmpty(_)
StrippedNonEmpty(parts) ==
    IF parts = <<>> THEN <<>>
    ELSE (IF strip(parts[1]) # <<>> THEN <<strip(parts[1])>> ELSE <<>>)
             \o StrippedNonEmpty(Tail(parts))

Range(f) == {f[i] : i \in DOMAIN f}

\* the element of a one-element set.  The({e(x) : x \in {v}}) is e(v) with v
\* evaluated once, however often e uses it.
The(S) == CHOOSE y \in S : TRUE

-----------------------------------------------------------------------------
(* get_article_text (newsapp.py).  The HTTP exchange and the HTML parse are *)
(* the environment: an answer is a failed request, or a page given by the  *)
(* text fragments of its p/h1/h2/h3 elements and of its body (has_body is  *)
(* FALSE when the document has no body element, soup.body is None).        *)

A(n) == Run("a", n)

max_length == 15000

NoError == "None"

\* a cap that also cuts a text of exactly max_length characters
ExceedsCap_reached(article_text) == len(article_text) >= max_length

\* line 50: the text is longer than the cap
ExceedsCap(article_text) == len(article_text) > max_length

get_article_text(page) ==
    IF page.kind # "ok"
    THEN \* requests.get raised, or raise_for_status() did
         [text |-> None, error |-> "request_failed", truncated |-> FALSE]
    ELSE LET paragraphs_text == join(StrippedNonEmpty(page.paragraphs))
         IN IF len(paragraphs_text) < 100 /\ ~page.has_body
            THEN \* soup.body.get_text raises AttributeError: except Exception
                 [text |-> None, error |-> "processing_error", truncated |-> FALSE]
            ELSE LET article_text ==
                         IF len(paragraphs_text) < 100
                         THEN join(StrippedNonEmpty(page.body))
                         ELSE paragraphs_text
                 IN IF article_text = <<>>
                    THEN [text |-> None, error |-> "no_content", truncated |-> FALSE]
                    ELSE IF ExceedsCap(article_text)
                    THEN [text |-> Str(Concat(Slice(article_text, max_length),
                                              Chars(<<".", ".", ".">>))),
                          error |-> NoError, truncated |-> TRUE]
                    ELSE [text |-> Str(article_text), error |-> NoError,
                          truncated |-> FALSE]

\* a check that only rejects a missing or empty text
TooShort_empty_only(text) == ~Truthy(text)

\* newsapp.py:173 and newsapp2.py:136: the text is missing or under 50 characters
TooShort(text) == ~Truthy(text) \/ len(text.s) < 50

-----------------------------------------------------------------------------
(* make_gemini_call_with_retry: the loop's constants and tests.            *)

max_retries == 3

\* a wait of 2 * attempt
wait_time_product(a) == 2 * a

\* wait_time = 2 ** attempt
wait_time(a) == 2 ^ a

\* a controller that also waits and warns after its last attempt
MayRetry_after_last(a) == a < max_retries

\* a controller that counts to the default whatever its argument
MayRetry_default_only(a) == a < max_retries - 1

\* if attempt < max_retries - 1
MayRetry(a) == a < max_retries_arg - 1

\* a controller that re-raises the last transient error
OnOutcome_reraise(kind, a) ==
    IF kind = "Response" THEN "return"
    ELSE IF kind = "APIError" THEN (IF MayRetry(a) THEN "retry" ELSE "raise")
    ELSE "unexpected"

\* a controller that retries every exception alike
OnOutcome_retry_all(kind, a) ==
    IF kind = "Response" THEN "return"
    ELSE IF MayRetry(a) THEN "retry" ELSE "exhausted"

\* What the controller does with the outcome of one generate_content call:
\* "return" the response, "retry" after a warning and a sleep, "exhausted"
\* (st.error, return None) or "unexpected" (st.error, return None).  Both
\* except clauses end in a return, so no outcome leaves the function as an
\* exception ("raise").
OnOutcome(kind, a) ==
    IF kind = "Response" THEN "return"
    ELSE IF kind = "APIError" THEN (IF MayRetry(a) THEN "retry" ELSE "exhausted")
    ELSE "unexpected"

\* for attempt in range(max_retries): whether the loop has another iteration
\* after the one with loop variable a
LoopContinues(a) == a + 1 < max_retries_arg

Stages == {"extract", "clean", "summary", "vocab"}

\* a script that starts with the summary
FirstStage_summary(v) == "summary"

\* a script of newsapp2.py that runs the separate clean step first
FirstStage_always_clean(v) == "clean"

\* the stage whose generation request follows the client's construction
FirstStage(v) == IF v = "newsapp" THEN "clean" ELSE "extract"

-----------------------------------------------------------------------------
(* json.loads.  The text of a vocabulary response is kept as its sequence  *)
(* of JSON lexemes (punctuation, string, number, bare word); json.loads is *)
(* the recursive-descent parse of that sequence.  A parsed value is tagged *)
(* with its Python type; a dict keeps its members in insertion order.      *)

TPunct(v) == [k |-> "punct", v |-> v]
TString(v) == [k |-> "string", v |-> v]
TNumber(v) == [k |-> "number", v |-> v]
TWord(v) == [k |-> "word", v |-> v]

JNull == [t |-> "null"]
JStr(v) == [t |-> "str", v |-> v]
JNum(v) == [t |-> "num", v |-> v]
JBool(v) == [t |-> "bool", v |-> v]
JArr(items) == [t |-> "arr", v |-> items]
JObj(members) == [t |-> "obj", v |-> members]

ParseFail == [ok |-> FALSE, val |-> JNull, rest |-> <<>>]
ParseOk(val, rest) == [ok |-> TRUE, val |-> val, rest |-> rest]

\* d[key] = val on an insertion-ordered dict
RECURSIVE DictSet(_, _, _)
DictSet(members, key, val) ==
    IF members = <<>> THEN <<[k |-> key, v |-> val]>>
    ELSE IF members[1].k = key THEN <<[k |-> key, v |-> val]>> \o Tail(members)
    ELSE <<members[1]>> \o DictSet(Tail(members), key, val)

RECURSIVE ParseValue(_)
RECURSIVE ParseElements(_, _)
RECURSIVE ParseMembers(_, _)

ParseValue(ts) ==
    IF ts = <<>> THEN ParseFail
    ELSE LET tok == ts[1] IN
         CASE tok.k = "string" -> ParseOk(JStr(tok.v), Tail(ts))
           [] tok.k = "number" -> ParseOk(JNum(tok.v), Tail(ts))
           [] tok.k = "word" ->
                IF tok.v = "null" THEN ParseOk(JNull, Tail(ts))
                ELSE IF tok.v \in {"true", "false"} THEN ParseOk(JBool(tok.v), Tail(ts))
                ELSE ParseFail
           [] tok = TPunct("[") ->
                IF Len(ts) >= 2 /\ ts[2] = TPunct("]")
                THEN ParseOk(JArr(<<>>), SubSeq(ts, 3, Len(ts)))
                ELSE ParseElements(Tail(ts), <<>>)
           [] tok = TPunct("{") ->
                IF Len(ts) >= 2 /\ ts[2] = TPunct("}")
                THEN ParseOk(JObj(<<>>), SubSeq(ts, 3, Len(ts)))
                ELSE ParseMembers(Tail(ts), <<>>)
           [] OTHER -> ParseFail

\* value ("," value)* "]"
ParseElements(ts, acc) ==
    The({ IF ~r.ok \/ r.rest = <<>> THEN ParseFail
          ELSE IF r.rest[1] = TPunct(",")
               THEN ParseElements(Tail(r.rest), Append(acc, r.val))
          ELSE IF r.rest[1] = TPunct("]")
               THEN ParseOk(JArr(Append(acc, r.val)), Tail(r.rest))
          ELSE ParseFail
        : r \in {ParseValue(ts)} })

\* string ":" value ("," string ":" value)* "}"
ParseMembers(ts, acc) ==
    IF Len(ts) < 3 \/ ts[1].k # "string" \/ ts[2] # TPunct(":") THEN ParseFail
    ELSE The({ IF ~r.ok \/ r.rest = <<>> THEN ParseFail
               ELSE IF r.rest[1] = TPunct(",")
                    THEN ParseMembers(Tail(r.rest), DictSet(acc, key, r.val))
               ELSE IF r.rest[1] = TPunct("}")
                    THEN ParseOk(JObj(DictSet(acc, key, r.val)), Tail(r.rest))
               ELSE ParseFail
             : r \in {ParseValue(SubSeq(ts, 3, Len(ts)))}, key \in {ts[1].v} })

\* json.loads(text): ok = FALSE is json.JSONDecodeError
json_loads(ts) ==
    The({ IF r.ok /\ r.rest = <<>> THEN [ok |-> TRUE, val |-> r.val]
          ELSE [ok |-> FALSE, val |-> JNull]
        : r \in {ParseValue(ts)} })

-----------------------------------------------------------------------------
(* pd.DataFrame(vocab_data) and the assignment to vocab_df.columns.  A     *)
(* frame is its column labels and its rows; ok = FALSE is the ValueError   *)
(* pandas raises.  Modelled for the shapes the responses below take: None, *)
(* a scalar, a dict of scalars, a list of dicts, of lists or of scalars.   *)

\* the three fields of the response schema (vocab_schema)
SchemaFields == <<"English_Word", "Thai_Translation", "Example_Sentence">>

NaN == [t |-> "NaN"]
IntLabel(i) == [t |-> "int", v |-> i]

IsScalar(j) == j.t \in {"null", "str", "num", "bool"}

EmptyFrame == [ok |-> TRUE, columns |-> <<>>, rows |-> <<>>]
FrameError == [ok |-> FALSE, columns |-> <<>>, rows |-> <<>>]

\* the keys of a list of dicts, each once, in order of first appearance
RECURSIVE KeysInOrder(_, _)
KeysInOrder(items, acc) ==
    IF items = <<>> THEN acc
    ELSE The({ KeysInOrder(rest, seen \o SelectSeq(keys, LAMBDA key : key \notin Range(seen)))
             : keys \in {[i \in 1..Len(items[1].v) |-> items[1].v[i].k]},
               rest \in {Tail(items)}, seen \in {acc} })

\* d.get(key, NaN)
DictGet(members, key) ==
    IF \E i \in 1..Len(members) : members[i].k = key
    THEN members[CHOOSE i \in 1..Len(members) : members[i].k = key].v
    ELSE NaN

MaxLen(items) ==
    CHOOSE m \in {Len(items[i].v) : i \in 1..Len(items)} :
        \A i \in 1..Len(items) : Len(items[i].v) <= m

DataFrame(data) ==
    CASE data.t = "null" -> EmptyFrame
      [] data.t \in {"str", "num", "bool"} ->
           FrameError                  \* "DataFrame constructor not properly called!"
      [] data.t = "obj" ->
           IF data.v = <<>> THEN EmptyFrame
           ELSE FrameError             \* "If using all scalar values, you must pass an index"
      [] data.t = "arr" ->
           The({
           IF items = <<>> THEN EmptyFrame
           ELSE IF \A i \in 1..Len(items) : items[i].t = "obj"
           THEN LET keys == KeysInOrder(items, <<>>) IN
                [ok |-> TRUE,
                 columns |-> [j \in 1..Len(keys) |-> JStr(keys[j])],
                 rows |-> [i \in 1..Len(items) |->
                             [j \in 1..Len(keys) |-> DictGet(items[i].v, keys[j])]]]
           ELSE IF \A i \in 1..Len(items) : items[i].t = "arr"
           THEN LET width == MaxLen(items) IN
                [ok |-> TRUE,
                 columns |-> [j \in 1..width |-> IntLabel(j - 1)],
                 rows |-> [i \in 1..Len(items) |->
                             [j \in 1..width |->
                                IF j <= Len(items[i].v) THEN items[i].v[j] ELSE NaN]]]
           ELSE [ok |-> TRUE,
                 columns |-> <<IntLabel(0)>>,
                 rows |-> [i \in 1..Len(items) |-> <<items[i]>>]]
           : items \in {data.v} })

\* vocab_schema: an array of objects whose fields are the three required
\* string fields
MatchesSchema(val) ==
    /\ val.t = "arr"
    /\ \A i \in 1..Len(val.v) :
          /\ val.v[i].t = "obj"
          /\ {val.v[i].v[j].k : j \in 1..Len(val.v[i].v)} = Range(SchemaFields)
          /\ \A j \in 1..Len(val.v[i].v) : val.v[i].v[j].v.t = "str"

\* vocab_df.columns = [the three display names]
DisplayColumns == <<JStr("word"), JStr("translation"), JStr("example")>>

\* df.columns = names: ok = FALSE is ValueError("Length mismatch")
SetColumns(df, names) ==
    IF Len(df.columns) # Len(names) THEN FrameError
    ELSE [ok |-> TRUE, columns |-> names, rows |-> df.rows]

\* lines 269-298: what the script shows for the text of a vocabulary response
\* that is truthy: the table, or an error (with the raw text after a
\* JSONDecodeError)
RenderVocab(text) ==
    The({ IF ~parsed.ok
          THEN <<[ev |-> "st.error", arg |-> "vocab_bad_json"],
                 [ev |-> "st.text", arg |-> text]>>
          ELSE The({ IF ~df.ok \/ ~SetColumns(df, DisplayColumns).ok
                     THEN <<[ev |-> "st.error", arg |-> "vocab_display_error"]>>
                     ELSE <<[ev |-> "st.dataframe",
                             arg |-> SetColumns(df, DisplayColumns)]>>
                   : df \in {DataFrame(parsed.val)} })
        : parsed \in {json_loads(text)} })

-----------------------------------------------------------------------------
(* The inputs and the environment's answers.                               *)

HttpPrefix == Chars(<<"h", "t", "t", "p", ":", "/", "/">>)
HttpsPrefix == Chars(<<"h", "t", "t", "p", "s", ":", "/", "/">>)

Urls ==
    { <<>>,                                             \* nothing typed
      Concat(HttpPrefix, A(1)),                         \* http://a
      Concat(HttpsPrefix, A(1)),                        \* https://a
      Chars(<<"f", "t", "p", ":", "/", "/", "a">>),     \* ftp://a
      Chars(<<"h", "t", "t", "p", ":", "/", "a">>) }    \* http:/a

ApiKeys == { <<>>, Chars(<<"k">>) }

Page(paragraphs, has_body, body) ==
    [kind |-> "ok", paragraphs |-> paragraphs, has_body |-> has_body, body |-> body]

HttpAnswers ==
    { [kind |-> "RequestException"],                    \* no connection, timeout
      [kind |-> "HTTPError"],                           \* raise_for_status(): 4xx, 5xx
      Page(<<>>, FALSE, <<>>),                          \* no body element
      Page(<<>>, TRUE, <<Run(" ", 2)>>),                \* nothing but whitespace
      Page(<<A(49)>>, TRUE, <<A(49)>>),                 \* 49 characters
      Page(<<Concat(Run(" ", 1), A(20)), Run(" ", 3), A(29)>>, TRUE,
           <<A(20), A(29)>>),                           \* 20 + "\n" + 29 = 50
      Page(<<A(120)>>, FALSE, <<>>),                    \* 120 characters
      Page(<<A(max_length)>>, TRUE, <<>>),              \* exactly the cap
      Page(<<Concat(A(max_length - 1), Chars(<<"b", "c">>))>>, TRUE, <<>>) }
                                                        \* one over the cap

APIError == [kind |-> "APIError"]
OtherException == [kind |-> "Exception"]
Reply(text) == [kind |-> "Response", text |-> text]

\* answers to the clean request (newsapp.py) and to the fetch-and-clean request
\* (newsapp2.py)
TextReplies ==
    { APIError, OtherException,
      Reply(None), Reply(Str(<<>>)), Reply(Str(Run(" ", 3))),
      Reply(Str(A(10))),
      Reply(Str(Concat(Concat(Run(" ", 1), A(80)), Run("\n", 1)))) }

SummaryReplies ==
    { APIError, OtherException,
      Reply(None), Reply(Str(<<>>)), Reply(Str(Run("s", 30))) }

Member(key, val) == <<TString(key), TPunct(":"), TString(val)>>

\* { k1: v1, k2: v2, ... }
RECURSIVE MembersTokens(_, _)
MembersTokens(keys, vals) ==
    IF keys = <<>> THEN <<>>
    ELSE Member(keys[1], vals[1])
            \o (IF Len(keys) > 1 THEN <<TPunct(",")>> ELSE <<>>)
            \o MembersTokens(Tail(keys), Tail(vals))

ObjectTokens(keys, vals) == <<TPunct("{")>> \o MembersTokens(keys, vals) \o <<TPunct("}")>>

RECURSIVE ItemsTokens(_)
ItemsTokens(items) ==
    IF items = <<>> THEN <<>>
    ELSE items[1] \o (IF Len(items) > 1 THEN <<TPunct(",")>> ELSE <<>>)
            \o ItemsTokens(Tail(items))

ArrayTokens(items) == <<TPunct("[")>> \o ItemsTokens(items) \o <<TPunct("]")>>

Words == <<"w1", "w2", "w3", "w4", "w5">>
Translations == <<"t1", "t2", "t3", "t4", "t5">>
Examples == <<"e1", "e2", "e3", "e4", "e5">>

\* the i-th entry, its fields in the order the schema lists them
Entry(i) == ObjectTokens(SchemaFields, <<Words[i], Translations[i], Examples[i]>>)

\* the i-th entry with the translation written first
EntrySwapped(i) ==
    ObjectTokens(<<"Thai_Translation", "English_Word", "Example_Sentence">>,
                 <<Translations[i], Words[i], Examples[i]>>)

VocabTexts ==
    { ArrayTokens([i \in 1..5 |-> Entry(i)]),            \* five entries
      ArrayTokens([i \in 1..3 |-> Entry(i)]),            \* three entries
      ArrayTokens([i \in 1..5 |-> EntrySwapped(i)]),     \* five, other key order
      <<TPunct("["), TPunct("{")>>,                      \* cut off
      <<TWord("Sorry")>>,                                \* prose
      ArrayTokens(<<ObjectTokens(<<"a", "b", "c">>, <<"x", "y", "z">>)>>),
      ArrayTokens(<<ObjectTokens(<<"English_Word", "Thai_Translation">>,
                                 <<"w1", "t1">>)>>),     \* a field missing
      Entry(1),                                          \* an object, no array
      <<TNumber("5")>>,
      <<TWord("null")>>,
      ArrayTokens(<<>>),
      ArrayTokens(<<ArrayTokens(<<<<TString("w1")>>, <<TString("t1")>>,
                                  <<TString("e1")>>>>)>>) }

VocabReplies ==
    { APIError, OtherException, Reply(None), Reply(Str(<<>>)) }
        \cup { Reply(Str(t)) : t \in VocabTexts }

Replies(s) ==
    CASE s \in {"clean", "extract"} -> TextReplies
      [] s = "summary" -> SummaryReplies
      [] s = "vocab" -> VocabReplies

-----------------------------------------------------------------------------
(* The script.                                                             *)

Response(text) == [ty |-> "Response", text |-> text]
Pending == [ty |-> "pending"]

\* `response and response.text`
HasText(r) == r.ty = "Response" /\ Truthy(r.text)

Ev(kind, arg) == [ev |-> kind, arg |-> arg]

Init ==
    /\ variant \in {"newsapp", "newsapp2"}
    /\ news_url \in Urls
    /\ gemini_api_key \in ApiKeys
    /\ pc = "button"
    /\ stage = "none"
    /\ attempt = 0
    /\ response = None
    /\ noisy_article_text = None
    /\ clean_article_text = None
    /\ log = <<>>
    /\ hist = [s \in Stages |-> <<>>]
    /\ sleeps = [s \in Stages |-> <<>>]
    /\ ret = [s \in Stages |-> Pending]
    /\ past = <<>>
    /\ max_retries_arg = max_retries    \* no call site passes the argument

\* input checks without the test of the API key
InputCheck_no_key(url, key) ==
    IF url = <<>> THEN <<Ev("st.info", "url_missing")>>
    ELSE IF ~(startswith(url, HttpPrefix) \/ startswith(url, HttpsPrefix))
         THEN <<Ev("st.error", "url_invalid")>>
    ELSE <<>>

\* 1. Input Validation: the message of the check that stops the run, or <<>>
InputCheck(url, key) ==
    IF url = <<>> THEN <<Ev("st.info", "url_missing")>>
    ELSE IF key = <<>> THEN <<Ev("st.error", "key_missing")>>
    ELSE IF ~(startswith(url, HttpPrefix) \/ startswith(url, HttpsPrefix))
         THEN <<Ev("st.error", "url_invalid")>>
    ELSE <<>>

\* a script that constructs the client right after the input checks
AfterInput_client_first(v) == "client"

\* what follows the input checks: the fetch (newsapp.py:165) or the client's
\* construction (newsapp2.py:122)
AfterInput(v) == IF v = "newsapp" THEN "fetch" ELSE "client"

\* what follows the client's construction: the first generation request
AfterClient(v) == "call"

ProcessButton ==
    /\ pc = "button"
    /\ log' = log \o InputCheck(news_url, gemini_api_key)
    /\ pc' = IF InputCheck(news_url, gemini_api_key) # <<>> THEN "stopped"
             ELSE AfterInput(variant)
    /\ UNCHANGED <<max_retries_arg, past, variant, news_url, gemini_api_key, stage, attempt, response,
                   noisy_article_text, clean_article_text, hist, sleeps, ret>>

\* a check that does not look at the error get_article_text returned
FetchCheck_ignores_error(r) ==
    IF r.error = NoError /\ TooShort(r.text) THEN Ev("st.error", "text_too_short")
    ELSE Ev("st.success", "fetch_ok")

\* newsapp.py:169-177: the message after get_article_text returned
FetchCheck(r) ==
    IF r.error # NoError THEN Ev("st.error", r.error)
    ELSE IF TooShort(r.text) THEN Ev("st.error", "text_too_short")
    ELSE Ev("st.success", "fetch_ok")

\* Step 1 of newsapp.py
FetchArticle ==
    /\ pc = "fetch"
    /\ \E page \in HttpAnswers :
          LET r == get_article_text(page) IN
          /\ log' = log \o <<[ev |-> "requests.get", arg |-> news_url,
                                   answer |-> page]>>
                        \o (IF r.truncated THEN <<Ev("st.warning", "truncated")>> ELSE <<>>)
                        \o <<FetchCheck(r)>>
          /\ noisy_article_text' = r.text
          /\ pc' = IF FetchCheck(r).ev = "st.error" THEN "stopped" ELSE "client"
    /\ UNCHANGED <<max_retries_arg, past, variant, news_url, gemini_api_key, stage, attempt, response,
                   clean_article_text, hist, sleeps, ret>>

\* genai.Client(api_key=...) in its try/except, and the entry into the first
\* generation stage
ClientInit ==
    /\ pc = "client"
    /\ \E raised \in BOOLEAN :
          /\ log' = log \o <<Ev("genai.Client", gemini_api_key)>>
                        \o (IF raised THEN <<Ev("st.error", "client_init_failed")>>
                            ELSE <<>>)
          /\ pc' = IF raised THEN "stopped" ELSE AfterClient(variant)
          /\ stage' = IF raised THEN stage ELSE FirstStage(variant)
    /\ attempt' = 0
    /\ UNCHANGED <<max_retries_arg, past, variant, news_url, gemini_api_key, response, noisy_article_text,
                   clean_article_text, hist, sleeps, ret>>

\* the text the prompt of the stage's request embeds
PromptText(s) ==
    CASE s = "clean" -> noisy_article_text
      [] s = "extract" -> Str(news_url)
      [] s \in {"summary", "vocab"} -> clean_article_text

\* a controller that gives up after the last attempt without a message
ControllerNotice_quiet_exhaustion(act, a) ==
    CASE act = "retry" ->
           <<[ev |-> "st.warning", arg |-> "api_retry", wait |-> wait_time(a)]>>
      [] act = "unexpected" -> <<Ev("st.error", "api_unexpected")>>
      [] act = "raise" -> <<Ev("st.exception", "traceback")>>
      [] OTHER -> <<>>

\* the st.* output of the controller for an outcome
ControllerNotice(act, a) ==
    CASE act = "retry" ->
           <<[ev |-> "st.warning", arg |-> "api_retry", wait |-> wait_time(a)]>>
      [] act = "exhausted" -> <<Ev("st.error", "api_exhausted")>>
      [] act = "unexpected" -> <<Ev("st.error", "api_unexpected")>>
      [] act = "raise" -> <<Ev("st.exception", "traceback")>>
      [] OTHER -> <<>>

\* one iteration of the controller's loop up to its return or its time.sleep
GenerateContent ==
    /\ pc = "call"
    /\ \E o \in Replies(stage) :
          LET act == OnOutcome(o.kind, attempt)
              value == IF act = "return" THEN Response(o.text) ELSE None
          IN /\ log' = log \o <<Ev("generate_content",
                                   [stage |-> stage, text |-> PromptText(stage)])>>
                           \o ControllerNotice(act, attempt)
             /\ hist' = [hist EXCEPT ![stage] = Append(@, o)]
             /\ IF act = "retry"
                THEN /\ pc' = "sleep"
                     /\ UNCHANGED <<response, ret>>
                ELSE IF act = "raise"
                THEN \* an exception out of the controller ends the script
                     /\ pc' = "crashed"
                     /\ UNCHANGED <<response, ret>>
                ELSE /\ pc' = "ret"
                     /\ response' = value
                     /\ ret' = [ret EXCEPT ![stage] = value]
    /\ UNCHANGED <<max_retries_arg, past, variant, news_url, gemini_api_key, stage, attempt,
                   noisy_article_text, clean_article_text, sleeps>>

\* time.sleep(wait_time), then the next iteration, or the return None after
\* the loop
Sleep ==
    /\ pc = "sleep"
    /\ log' = log \o <<Ev("time.sleep", wait_time(attempt))>>
    /\ sleeps' = [sleeps EXCEPT ![stage] = Append(@, wait_time(attempt))]
    /\ IF LoopContinues(attempt)
       THEN /\ attempt' = attempt + 1
            /\ pc' = "call"
            /\ UNCHANGED <<response, ret>>
       ELSE /\ pc' = "ret"
            /\ response' = None
            /\ ret' = [ret EXCEPT ![stage] = None]
            /\ UNCHANGED attempt
    /\ UNCHANGED <<max_retries_arg, past, variant, news_url, gemini_api_key, stage, noisy_article_text,
                   clean_article_text, hist>>

\* extract_main_content_with_gemini (newsapp.py:89-92) and
\* extract_article_content (newsapp2.py:72-75): the pair they return
ExtractionResult(r, message) ==
    IF HasText(r) THEN [text |-> Str(strip(r.text.s)), error |-> NoError]
    ELSE [text |-> None, error |-> message]

\* a clean step without the fallback assignment
CleanOrFallback_none(result, noisy) == result.text

\* newsapp.py:191-197: the text the later stages use
CleanOrFallback(result, noisy) ==
    IF result.error # NoError THEN noisy ELSE result.text

\* newsapp.py:191-197: the messages of the clean step
CleanNotices(result) ==
    IF result.error # NoError
    THEN <<Ev("st.error", result.error), Ev("st.warning", "clean_fallback")>>
    ELSE <<Ev("st.success", "clean_ok")>>

\* Step 1.5 of newsapp.py, the display of the text, and the entry into Step 2
CleanReturn ==
    /\ pc = "ret"
    /\ stage = "clean"
    /\ LET result == ExtractionResult(response, "clean_failed")
           text == CleanOrFallback(result, noisy_article_text)
       IN /\ clean_article_text' = text
          /\ log' = log \o CleanNotices(result) \o <<Ev("st.text_area", text)>>
    /\ stage' = "summary"
    /\ attempt' = 0
    /\ pc' = "call"
    /\ UNCHANGED <<max_retries_arg, past, variant, news_url, gemini_api_key, response, noisy_article_text,
                   hist, sleeps, ret>>

\* newsapp2.py:132-140: the message after extract_article_content returned
ExtractCheck(result) ==
    IF result.error # NoError THEN Ev("st.error", result.error)
    ELSE IF TooShort(result.text) THEN Ev("st.error", "text_too_short")
    ELSE Ev("st.success", "extract_ok")

\* Step 1 of newsapp2.py, the display of the text, and the entry into Step 2
ExtractReturn ==
    /\ pc = "ret"
    /\ stage = "extract"
    /\ LET result == ExtractionResult(response, "extract_failed")
           stop == ExtractCheck(result).ev = "st.error"
       IN /\ clean_article_text' = result.text
          /\ log' = log \o <<ExtractCheck(result)>>
                        \o (IF stop THEN <<>> ELSE <<Ev("st.text_area", result.text)>>)
          /\ pc' = IF stop THEN "stopped" ELSE "call"
          /\ stage' = IF stop THEN stage ELSE "summary"
    /\ attempt' = 0
    /\ UNCHANGED <<max_retries_arg, past, variant, news_url, gemini_api_key, response, noisy_article_text,
                   hist, sleeps, ret>>

\* a summary step with its two branches exchanged
SummaryOutput_inverted(r) ==
    IF HasText(r) THEN Ev("st.error", "summary_failed") ELSE Ev("st.markdown", None)

\* lines 227-230: the summary, or the error
SummaryOutput(r) ==
    IF HasText(r) THEN Ev("st.markdown", r.text) ELSE Ev("st.error", "summary_failed")

\* a summary step that stops the run when there is no summary
AfterSummary_stop(r) == IF HasText(r) THEN "call" ELSE "stopped"

\* the position after the summary was shown or its error reported: Step 3
AfterSummary(r) == "call"

\* the end of Step 2 and the entry into Step 3
SummaryReturn ==
    /\ pc = "ret"
    /\ stage = "summary"
    /\ log' = log \o <<SummaryOutput(response)>>
    /\ pc' = AfterSummary(response)
    /\ stage' = IF AfterSummary(response) = "call" THEN "vocab" ELSE stage
    /\ attempt' = 0
    /\ UNCHANGED <<max_retries_arg, past, variant, news_url, gemini_api_key, response, noisy_article_text,
                   clean_article_text, hist, sleeps, ret>>

\* lines 269-298: the table, or one of the three errors
VocabOutput(r) ==
    IF HasText(r) THEN RenderVocab(r.text.s) ELSE <<Ev("st.error", "vocab_failed")>>

\* the end of Step 3: the script's last line
VocabReturn ==
    /\ pc = "ret"
    /\ stage = "vocab"
    /\ log' = log \o VocabOutput(response)
    /\ pc' = "done"
    /\ UNCHANGED <<max_retries_arg, past, variant, news_url, gemini_api_key, stage, attempt, response,
                   noisy_article_text, clean_article_text, hist, sleeps, ret>>

Next ==
    \/ ProcessButton
    \/ FetchArticle
    \/ ClientInit
    \/ GenerateContent
    \/ Sleep
    \/ CleanReturn
    \/ ExtractReturn
    \/ SummaryReturn
    \/ VocabReturn

Spec == Init /\ [][Next]_vars

-----------------------------------------------------------------------------
(* The next press of the button.  Streamlit runs the script again from its *)
(* top: the widgets keep what the user typed or now types, the screen is   *)
(* drawn anew, and the names the script binds are bound anew.  Neither     *)
(* file uses st.session_state or a cache.                                  *)

\* the number of presses of the button in a session
MaxRuns == 2

\* what a finished run leaves behind
RunOutcome ==
    [news_url |-> news_url, gemini_api_key |-> gemini_api_key, pc |-> pc,
     noisy_article_text |-> noisy_article_text,
     clean_article_text |-> clean_article_text,
     log |-> log, hist |-> hist, sleeps |-> sleeps, ret |-> ret]

\* a script that keeps its texts in st.session_state from run to run
ScriptStart_session_state ==
    [response |-> None, noisy_article_text |-> noisy_article_text,
     clean_article_text |-> clean_article_text]

\* the script's names at its top: not bound yet
ScriptStart ==
    [response |-> None, noisy_article_text |-> None, clean_article_text |-> None]

Rerun ==
    /\ pc \in {"stopped", "done", "crashed"}
    /\ Len(past) + 1 < MaxRuns
    /\ past' = Append(past, RunOutcome)
    /\ \E url \in Urls, key \in ApiKeys :
          /\ news_url' = url
          /\ gemini_api_key' = key
    /\ pc' = "button"
    /\ stage' = "none"
    /\ attempt' = 0
    /\ response' = ScriptStart.response
    /\ noisy_article_text' = ScriptStart.noisy_article_text
    /\ clean_article_text' = ScriptStart.clean_article_text
    /\ log' = <<>>
    /\ hist' = [s \in Stages |-> <<>>]
    /\ sleeps' = [s \in Stages |-> <<>>]
    /\ ret' = [s \in Stages |-> Pending]
    /\ UNCHANGED <<variant, max_retries_arg>>

\* the answers of the sessions of SpecRuns: the good URL or none, a key, a
\* page of 120 characters or a refused connection, and per request a
\* transient error (for the first stage), another error or a reply: a text,
\* a summary, five vocabulary entries
FewAnswers ==
    /\ news_url \in {<<>>, Concat(HttpsPrefix, A(1))}
    /\ gemini_api_key # <<>>
    /\ \A i \in DOMAIN log :
          log[i].ev = "requests.get" =>
              log[i].answer \in {[kind |-> "RequestException"],
                                 Page(<<A(120)>>, FALSE, <<>>)}
    /\ \A s \in {"extract", "clean"} : \A k \in DOMAIN hist[s] :
          hist[s][k] \in {APIError, Reply(Str(Concat(Concat(Run(" ", 1), A(80)),
                                                    Run("\n", 1))))}
    /\ \A k \in DOMAIN hist["summary"] :
          /\ hist["summary"][k].kind \in {"Exception", "Response"}
          /\ hist["summary"][k].kind = "Response" => Truthy(hist["summary"][k].text)
    /\ \A k \in DOMAIN hist["vocab"] :
          /\ hist["vocab"][k].kind = "Response"
          /\ Truthy(hist["vocab"][k].text)
          /\ hist["vocab"][k].text.s \in
                {ArrayTokens([i \in 1..5 |-> Entry(i)]),
                 ArrayTokens(<<ObjectTokens(<<"a", "b", "c">>, <<"x", "y", "z">>)>>)}

InitRuns == Init /\ FewAnswers

NextRuns ==
    \/ ProcessButton /\ FewAnswers'
    \/ FetchArticle /\ FewAnswers'
    \/ ClientInit /\ FewAnswers'
    \/ GenerateContent /\ FewAnswers'
    \/ Sleep /\ FewAnswers'
    \/ CleanReturn /\ FewAnswers'
    \/ ExtractReturn /\ FewAnswers'
    \/ SummaryReturn /\ FewAnswers'
    \/ VocabReturn /\ FewAnswers'
    \/ Rerun /\ FewAnswers'

SpecRuns == InitRuns /\ [][NextRuns]_vars

-----------------------------------------------------------------------------
(* One invocation of make_gemini_call_with_retry on its own, for any stage  *)
(* and with any value of its parameter max_retries from 1 to MaxAttempts.  *)

MaxAttempts == 4

InitController ==
    /\ variant \in {"newsapp", "newsapp2"}
    /\ news_url = Concat(HttpsPrefix, A(1))
    /\ gemini_api_key = Chars(<<"k">>)
    /\ pc = "call"
    /\ stage \in Stages
    /\ attempt = 0
    /\ response = None
    /\ noisy_article_text = Str(A(120))
    /\ clean_article_text = Str(A(80))
    /\ log = <<>>
    /\ hist = [s \in Stages |-> <<>>]
    /\ sleeps = [s \in Stages |-> <<>>]
    /\ ret = [s \in Stages |-> Pending]
    /\ past = <<>>
    /\ max_retries_arg \in 1..MaxAttempts

NextController ==
    \/ GenerateContent
    \/ Sleep

SpecController == InitController /\ [][NextController]_vars

\* The script is run to its end: every blocking call (requests.get with its
\* timeout, generate_content, time.sleep) returns or raises, so a step that is
\* possible is eventually taken.
FairSpec == Spec /\ WF_vars(Next)

-----------------------------------------------------------------------------
(* Vocabulary of the properties.                                           *)

\* the positions of the log's events of one kind
At(kind) == {i \in DOMAIN log : log[i].ev = kind}

\* the positions of the generation requests of stage s
Requests(s) == {i \in At("generate_content") : log[i].arg.stage = s}

\* the run is over: st.stop(), the script's last line, or a traceback
Terminal == pc \in {"stopped", "done", "crashed"}

Shown(kind, msg) == \E i \in At(kind) : log[i].arg = msg

\* h is k transient failures followed by one success
TransientThenSuccess(h, k) ==
    /\ Len(h) = k + 1
    /\ \A i \in 1..k : h[i].kind = "APIError"
    /\ h[k + 1].kind = "Response"

AllTransient(h) == \A i \in DOMAIN h : h[i].kind = "APIError"

\* 1, 2, ..., 2^(k-1)
Doubling(k) == [i \in 1..k |-> 2 ^ (i - 1)]

-----------------------------------------------------------------------------
(* The retry controller.                                                   *)

\* C1: a stage whose request failed with a transient API error k times
\* (k = 0, 1, 2) and then succeeded got that success back from the
\* controller, after exactly k + 1 requests and exactly k sleeps of
\* 1, 2, ..., 2^(k-1) seconds.
C1_RetryThenSuccess ==
    \A s \in Stages : \A k \in 0..2 :
        TransientThenSuccess(hist[s], k) =>
            /\ ret[s] = Response(hist[s][k + 1].text)
            /\ Cardinality(Requests(s)) = k + 1
            /\ sleeps[s] = Doubling(k)

\* two transient failures, then the success is returned
C1_Witness ==
    \E s \in Stages :
        /\ TransientThenSuccess(hist[s], 2)
        /\ ret[s].ty = "Response"
        /\ sleeps[s] = <<1, 2>>

\* C2: a stage whose every request failed with a transient API error made
\* exactly three requests, the controller then returned None, and no
\* exception left the controller.
C2_ExhaustionReturnsNone ==
    \A s \in Stages :
        (hist[s] # <<>> /\ AllTransient(hist[s])) =>
            /\ Len(hist[s]) <= 3
            /\ pc # "crashed"
            /\ (Len(hist[s]) = 3 => ret[s] = None /\ Cardinality(Requests(s)) = 3)
            /\ (ret[s] # Pending => Len(hist[s]) = 3)

\* three transient failures, and the controller has returned None
C2_Witness ==
    \E s \in Stages :
        /\ Len(hist[s]) = 3
        /\ AllTransient(hist[s])
        /\ ret[s] = None
        /\ stage = s
        /\ pc = "ret"

\* C3: an attempt that failed with an exception other than APIError is the
\* stage's last request: the controller returned None at once, with no sleep
\* and no request after it, at whichever attempt it happened.
C3_NonTransientAbandons ==
    \A s \in Stages : \A i \in DOMAIN hist[s] :
        hist[s][i].kind = "Exception" =>
            /\ i = Len(hist[s])
            /\ ret[s] = None
            /\ Len(sleeps[s]) = i - 1
            /\ Cardinality(Requests(s)) = i

\* the unexpected exception came at the first attempt of one stage and at the
\* third attempt of another
C3_Witness ==
    \E s, u \in Stages :
        /\ Len(hist[s]) = 1 /\ hist[s][1].kind = "Exception" /\ ret[s] = None
        /\ Len(hist[u]) = 3 /\ hist[u][3].kind = "Exception" /\ ret[u] = None

-----------------------------------------------------------------------------
(* The pipeline.                                                           *)

\* the controller returned None, or a response whose text is None or ""
NoText(r) ==
    \/ r = None
    \/ r.ty = "Response" /\ (r.text = None \/ r.text = Str(<<>>))

\* every request of stage s embeds the text t, and there is one
RequestedWith(s, t) ==
    /\ Requests(s) # {}
    /\ \A i \in Requests(s) : log[i].arg.text = t

\* C4: in newsapp.py, once the clean step has handled a Clean failure (the
\* controller returned None, or a response without text), clean_article_text
\* is the text get_article_text returned, the fallback warning is shown, the
\* run is not stopped, and when it ends both the summary and the vocabulary
\* request have been issued with that text.
C4_CleanFallback ==
    (variant = "newsapp" /\ NoText(ret["clean"]) /\ stage \in {"summary", "vocab"}) =>
        /\ noisy_article_text.ty = "str"
        /\ clean_article_text = noisy_article_text
        /\ Shown("st.warning", "clean_fallback")
        /\ pc \notin {"stopped", "crashed"}
        /\ \A s \in {"summary", "vocab"} :
              Requests(s) # {} => RequestedWith(s, noisy_article_text)
        /\ Terminal =>
              /\ RequestedWith("summary", noisy_article_text)
              /\ RequestedWith("vocab", noisy_article_text)

\* the run ended after the clean request was abandoned (three transient
\* errors) and the fetched text was used instead
C4_Witness ==
    /\ variant = "newsapp"
    /\ pc = "done"
    /\ ret["clean"] = None
    /\ Len(hist["clean"]) = 3
    /\ clean_article_text = noisy_article_text
    /\ RequestedWith("vocab", noisy_article_text)

\* there is no summary: the controller returned None or a response without text
SummaryFailed == ret["summary"] # Pending /\ NoText(ret["summary"])

\* C5: a run that issued a summary request is never stopped, and when it
\* ends it has issued the vocabulary request, whatever the summary's outcome;
\* a failed summary is reported with st.error once the summary step is over.
C5_SiblingIndependence ==
    Requests("summary") # {} =>
        /\ pc \notin {"stopped", "crashed"}
        /\ Terminal => Requests("vocab") # {}
        /\ (SummaryFailed /\ stage = "vocab") =>
              /\ Shown("st.error", "summary_failed")
              /\ At("st.markdown") = {}

\* the summary failed by a non-transient error and the vocabulary table was
\* still requested and shown
C5_Witness ==
    /\ pc = "done"
    /\ hist["summary"][Len(hist["summary"])].kind = "Exception"
    /\ Shown("st.error", "summary_failed")
    /\ Requests("vocab") # {}
    /\ At("st.dataframe") # {}

\* the two URLs of Urls that start with http:// or https://
GoodUrls == {Concat(HttpPrefix, A(1)), Concat(HttpsPrefix, A(1))}

InvalidInput == news_url \notin GoodUrls \/ gemini_api_key = <<>>

NetworkEvents == At("requests.get") \cup At("generate_content")

\* C6: a run with an empty URL, a URL that starts with neither http:// nor
\* https://, or no API key issues no HTTP request and no generation request
\* and constructs no client; after the input checks it is stopped with
\* exactly one message shown.
C6_InputValidation ==
    InvalidInput =>
        /\ NetworkEvents = {}
        /\ At("genai.Client") = {}
        /\ pc \in {"button", "stopped"}
        /\ pc = "stopped" =>
              /\ Len(log) = 1
              /\ log[1].ev \in {"st.error", "st.info"}

\* stopped by the missing key although the URL is good
C6_Witness ==
    /\ news_url \in GoodUrls
    /\ gemini_api_key = <<>>
    /\ pc = "stopped"
    /\ Shown("st.error", "key_missing")

\* the fetcher returned a text of fewer than 50 characters
ShortFetched ==
    \/ variant = "newsapp" /\ noisy_article_text.ty = "str"
          /\ len(noisy_article_text.s) < 50
    \/ variant = "newsapp2" /\ clean_article_text.ty = "str"
          /\ len(clean_article_text.s) < 50

\* C7: a run whose fetcher returned fewer than 50 characters is stopped with
\* the too-short error and has issued no clean, summary or vocabulary
\* request; in newsapp.py it has issued no generation request at all and
\* constructed no client.
C7_ValidateAborts ==
    ShortFetched =>
        /\ pc = "stopped"
        /\ log[Len(log)] = Ev("st.error", "text_too_short")
        /\ \A s \in {"clean", "summary", "vocab"} : Requests(s) = {}
        /\ variant = "newsapp" => At("generate_content") = {} /\ At("genai.Client") = {}

\* 49 characters scraped in newsapp.py
C7_Witness ==
    /\ variant = "newsapp"
    /\ noisy_article_text = Str(A(49))
    /\ pc = "stopped"

\* 10 characters returned by the fetch-and-clean request of newsapp2.py
C7_WitnessDelegated ==
    /\ variant = "newsapp2"
    /\ clean_article_text = Str(A(10))
    /\ pc = "stopped"

FetchErrors == {"request_failed", "processing_error", "no_content"}

\* get_article_text returned an error
FetchFailedLocal ==
    variant = "newsapp" /\ At("requests.get") # {} /\ noisy_article_text = None

\* the fetch-and-clean request yielded no text
FetchFailedDelegated ==
    variant = "newsapp2" /\ ret["extract"] # Pending /\ NoText(ret["extract"])

Artifacts == At("st.text_area") \cup At("st.markdown") \cup At("st.dataframe")

NoDownstream ==
    /\ \A s \in {"clean", "summary", "vocab"} : Requests(s) = {}
    /\ Artifacts = {}

\* C8: a failed fetch is fatal in both files: after get_article_text returned
\* an error (newsapp.py), or once extract_article_content's result without
\* text has been handled (newsapp2.py), the run is stopped with the error
\* shown, and no clean, summary or vocabulary request is ever issued and no
\* text, summary or table is ever shown.
C8_FetchFailureFatal ==
    /\ FetchFailedLocal =>
          /\ pc = "stopped"
          /\ log[Len(log)].ev = "st.error"
          /\ log[Len(log)].arg \in FetchErrors
          /\ NoDownstream
    /\ FetchFailedDelegated =>
          /\ NoDownstream
          /\ pc = "ret" \/ pc = "stopped"
          /\ pc = "stopped" => log[Len(log)] = Ev("st.error", "extract_failed")

\* the page had no extractable content
C8_Witness ==
    /\ FetchFailedLocal
    /\ Shown("st.error", "no_content")
    /\ pc = "stopped"

\* the fetch-and-clean request was abandoned after three transient errors
C8_WitnessDelegated ==
    /\ FetchFailedDelegated
    /\ Len(hist["extract"]) = 3
    /\ pc = "stopped"

\* some event of the log before position i is of the given kind
Before(i, kind) == \E j \in 1..(i - 1) : log[j].ev = kind

\* the network requests of the Fetch stage: the HTTP GET of newsapp.py, the
\* fetch-and-clean request of newsapp2.py
FetchRequests == At("requests.get") \cup Requests("extract")

Malformed(text) ==
    \/ ~json_loads(text).ok
    \/ ~MatchesSchema(json_loads(text).val)

\* C10, as claimed: a vocabulary response whose text is not valid JSON or
\* does not match the schema is reported with the malformed-JSON error, its
\* raw text is shown, and no table is shown.
C10_MalformedReported ==
    (/\ pc = "done"
     /\ ret["vocab"].ty = "Response"
     /\ Truthy(ret["vocab"].text)
     /\ Malformed(ret["vocab"].text.s)) =>
        /\ Shown("st.error", "vocab_bad_json")
        /\ \E i \in At("st.text") : log[i].arg = ret["vocab"].text.s
        /\ At("st.dataframe") = {}

-----------------------------------------------------------------------------
(* The vocabulary table.                                                   *)

\* the vocabulary response the controller returned has a non-empty text
VocabAnswered ==
    /\ ret["vocab"].ty = "Response"
    /\ Truthy(ret["vocab"].text)

\* C11, as claimed: every vocabulary table the script shows has exactly five
\* rows (stated for the responses that are arrays of the schema's shape,
\* whatever their number of entries).
C11_FiveRows ==
    (/\ VocabAnswered
     /\ json_loads(ret["vocab"].text.s).ok
     /\ MatchesSchema(json_loads(ret["vocab"].text.s).val)) =>
        \A i \in At("st.dataframe") : Len(log[i].arg.rows) = 5

\* the text parses to an array of five objects of the schema's shape whose
\* field values are non-empty strings
WellFormedFive(text) ==
    /\ json_loads(text).ok
    /\ MatchesSchema(json_loads(text).val)
    /\ Len(json_loads(text).val.v) = 5
    /\ \A i \in 1..5 : \A j \in 1..3 : json_loads(text).val.v[i].v[j].v.v # ""

\* the rows the entries stand for: word, translation, example
ExpectedRows(text) ==
    [i \in 1..Len(json_loads(text).val.v) |->
        [j \in 1..3 |-> DictGet(json_loads(text).val.v[i].v, SchemaFields[j])]]

\* C12, as claimed: for a well-formed response of five entries the table
\* shown has five rows, in the order of the response, whose first, second
\* and third cells are the entry's English_Word, Thai_Translation and
\* Example_Sentence.
C12_RowsFollowEntries ==
    (pc = "done" /\ VocabAnswered /\ WellFormedFive(ret["vocab"].text.s)) =>
        \E i \in At("st.dataframe") :
            /\ log[i].arg.columns = DisplayColumns
            /\ log[i].arg.rows = ExpectedRows(ret["vocab"].text.s)

-----------------------------------------------------------------------------
(* The delegated fetch of newsapp2.py.                                     *)

\* extract_article_content has returned and its result has been handled
ExtractHandled ==
    ret["extract"] # Pending /\ ~(pc = "ret" /\ stage = "extract")

\* C13, as claimed: a run of newsapp2.py whose fetch has returned issued
\* exactly one fetch-and-clean request, and never waited for a retry.
C13_SingleFetchCall ==
    (variant = "newsapp2" /\ ret["extract"] # Pending) =>
        /\ Cardinality(Requests("extract")) = 1
        /\ sleeps["extract"] = <<>>

\* C13, amended: newsapp2.py fetches through the retry controller and nothing
\* else: no HTTP GET and no clean request, at most max_retries
\* fetch-and-clean requests, each embedding the URL, each but the last
\* answered by a transient error; a controller result without text stops the
\* run at once with the extraction error and nothing downstream; a result
\* with text, stripped, is the text the later stages work on.
C13_DelegatedFetch ==
    variant = "newsapp2" =>
        /\ At("requests.get") = {}
        /\ Requests("clean") = {}
        /\ Cardinality(Requests("extract")) = Len(hist["extract"])
        /\ Len(hist["extract"]) <= max_retries
        /\ \A k \in 1..(Len(hist["extract"]) - 1) : hist["extract"][k] = APIError
        /\ \A i \in Requests("extract") : log[i].arg.text = Str(news_url)
        /\ (ExtractHandled /\ ~HasText(ret["extract"])) =>
              /\ pc = "stopped"
              /\ log[Len(log)] = Ev("st.error", "extract_failed")
              /\ NoDownstream
        /\ (ExtractHandled /\ HasText(ret["extract"])) =>
              clean_article_text = Str(strip(ret["extract"].text.s))
        /\ stage \in {"summary", "vocab"} =>
              /\ HasText(ret["extract"])
              /\ \A i \in Requests("summary") \cup Requests("vocab") :
                    log[i].arg.text = Str(strip(ret["extract"].text.s))

\* the fetch-and-clean request succeeded at the second attempt, with a text
\* that strip() shortens, and the summary was requested
C13_Witness ==
    /\ variant = "newsapp2"
    /\ Len(hist["extract"]) = 2
    /\ sleeps["extract"] = <<1>>
    /\ HasText(ret["extract"])
    /\ ret["extract"].text.s # strip(ret["extract"].text.s)
    /\ Requests("summary") # {}

-----------------------------------------------------------------------------
(* The length cap of get_article_text.                                     *)

\* the text get_article_text extracted from a page, before the cap
ExtractedText(page) ==
    LET paragraphs_text == join(StrippedNonEmpty(page.paragraphs))
    IN IF len(paragraphs_text) < 100 THEN join(StrippedNonEmpty(page.body))
       ELSE paragraphs_text

TruncationMarker == Chars(<<".", ".", ".">>)

-----------------------------------------------------------------------------
(* What the retry controller shows.                                        *)

\* position i of the log holds a generation request of stage s
IsRequest(i, s) ==
    /\ i \in DOMAIN log
    /\ log[i].ev = "generate_content"
    /\ log[i].arg.stage = s

\* the retry warnings of the controller's invocation for stage s: each
\* follows the request it reports on
RetryWarnings(s) ==
    {i \in At("st.warning") : log[i].arg = "api_retry" /\ IsRequest(i - 1, s)}

\* the final failure messages of the invocation for stage s
FailureNotices(s) ==
    {i \in At("st.error") : /\ log[i].arg \in {"api_exhausted", "api_unexpected"}
                            /\ IsRequest(i - 1, s)}

\* the backoff waits of the invocation for stage s
Waits(s) == {i \in At("time.sleep") : IsRequest(i - 2, s)}

\* the invocation for stage s is between its warning and its time.sleep
Waiting(s) == pc = "sleep" /\ stage = s

\* C15: in every invocation of make_gemini_call_with_retry, each retry warning
\* is followed at once by the wait it announces and each wait follows such a
\* warning, so there are as many warnings as waits (one more while the
\* controller stands between a warning and its wait); there is exactly one
\* final failure message when the controller has returned None, which it does
\* only after a call that failed, and none otherwise; and no such warning or
\* message appears outside an invocation.
C15_RetryObservability ==
    /\ \A s \in Stages :
          /\ \A i \in RetryWarnings(s) :
                \/ i = Len(log) /\ Waiting(s)
                \/ i < Len(log) /\ log[i + 1] = Ev("time.sleep", log[i].wait)
          /\ Cardinality(Waits(s)) = Len(sleeps[s])
          /\ Cardinality(RetryWarnings(s)) =
                Len(sleeps[s]) + (IF Waiting(s) THEN 1 ELSE 0)
          /\ Cardinality(FailureNotices(s)) = (IF ret[s] = None THEN 1 ELSE 0)
          /\ ret[s] = None =>
                /\ hist[s] # <<>>
                /\ hist[s][Len(hist[s])].kind # "Response"
                /\ \A i \in FailureNotices(s) : \A j \in i..Len(log) : ~IsRequest(j, s)
    /\ \A i \in At("time.sleep") :
          /\ \E s \in Stages : IsRequest(i - 2, s)
          /\ log[i - 1].ev = "st.warning" /\ log[i - 1].arg = "api_retry"
    /\ \A i \in At("st.warning") :
          log[i].arg = "api_retry" => \E s \in Stages : IsRequest(i - 1, s)
    /\ \A i \in At("st.error") :
          log[i].arg \in {"api_exhausted", "api_unexpected"} =>
              \E s \in Stages : IsRequest(i - 1, s)

\* the summary request failed three times: two warnings, two waits, one final
\* message, None returned
C15_Witness ==
    /\ hist["summary"] = <<APIError, APIError, APIError>>
    /\ ret["summary"] = None
    /\ Cardinality(RetryWarnings("summary")) = 2
    /\ Cardinality(Waits("summary")) = 2
    /\ Cardinality(FailureNotices("summary")) = 1

-----------------------------------------------------------------------------
(* No silent failures.                                                     *)

\* the vocabulary stage succeeded: the response text is a non-empty JSON
\* array of objects of the schema's shape
VocabSucceeded ==
    /\ VocabAnswered
    /\ ~Malformed(ret["vocab"].text.s)
    /\ json_loads(ret["vocab"].text.s).val.v # <<>>

VocabErrors == {"vocab_failed", "vocab_bad_json", "vocab_display_error"}

\* C16, as claimed: when the run has ended, every stage that was run and did
\* not yield its artifact has an error or a warning on the screen, the
\* summary is on the screen exactly if the summary response had a text, and
\* the vocabulary table is on the screen exactly if the vocabulary stage
\* succeeded.
C16_NoSilentFailure ==
    Terminal =>
        /\ FetchFailedLocal => \E m \in FetchErrors : Shown("st.error", m)
        /\ FetchFailedDelegated => Shown("st.error", "extract_failed")
        /\ ShortFetched => Shown("st.error", "text_too_short")
        /\ (ret["clean"] # Pending /\ ~HasText(ret["clean"])) =>
              Shown("st.error", "clean_failed") /\ Shown("st.warning", "clean_fallback")
        /\ ret["summary"] # Pending =>
              /\ ~HasText(ret["summary"]) => Shown("st.error", "summary_failed")
              /\ At("st.markdown") # {} <=> HasText(ret["summary"])
        /\ ret["vocab"] # Pending =>
              /\ ~VocabSucceeded => \E m \in VocabErrors : Shown("st.error", m)
              /\ At("st.dataframe") # {} <=> VocabSucceeded
        /\ ret["summary"] = Pending => At("st.markdown") = {}
        /\ ret["vocab"] = Pending => At("st.dataframe") = {}

-----------------------------------------------------------------------------
(* The happy path.                                                         *)

\* the generation stages of a variant
StagesOf(v) ==
    IF v = "newsapp" THEN {"clean", "summary", "vocab"}
    ELSE {"extract", "summary", "vocab"}

\* all that has happened so far is as the happy path wants it: valid inputs,
\* a client, a fetched text of 50 characters or more, every generation
\* request answered at once by a response with a non-empty text, and a
\* vocabulary payload of five well-formed entries
HappySoFar ==
    /\ news_url \in GoodUrls
    /\ gemini_api_key # <<>>
    /\ ~Shown("st.error", "client_init_failed")
    /\ (variant = "newsapp" /\ At("requests.get") # {}) =>
          noisy_article_text.ty = "str" /\ len(noisy_article_text.s) >= 50
    /\ (variant = "newsapp2" /\ ret["extract"] # Pending) =>
          /\ HasText(ret["extract"])
          /\ len(strip(ret["extract"].text.s)) >= 50
    /\ \A s \in Stages : \A k \in DOMAIN hist[s] :
          hist[s][k].kind = "Response" /\ Truthy(hist[s][k].text)
    /\ ret["vocab"] # Pending => WellFormedFive(ret["vocab"].text.s)

\* the text the clean stage (newsapp.py) or the fetch-and-clean stage
\* (newsapp2.py) returned, stripped
CleanedText ==
    Str(strip(ret[FirstStage(variant)].text.s))

\* the run is complete with its three artifacts on the screen and no error
HappyCompleted ==
    /\ pc = "done"
    /\ \A s \in StagesOf(variant) : Cardinality(Requests(s)) = 1
    /\ \E i \in At("st.text_area") : log[i].arg = CleanedText
    /\ clean_article_text = CleanedText
    /\ \E i \in At("st.markdown") : log[i].arg = ret["summary"].text
    /\ \E i \in At("st.dataframe") :
          /\ log[i].arg.columns = DisplayColumns
          /\ Len(log[i].arg.rows) = 5
    /\ At("st.error") = {}

\* C17: a run on the happy path is never stopped, never waits and issues at
\* most one generation request per stage, none for a stage of the other
\* variant; when it has reached its last line the cleaned text, the summary
\* and a vocabulary table of five rows are on the screen and exactly one
\* request per stage was issued; and when the script is run to its end, such
\* a run does reach its last line.
C17_HappyPath ==
    /\ [](HappySoFar =>
            /\ pc # "stopped"
            /\ \A s \in Stages : sleeps[s] = <<>>
            /\ \A s \in StagesOf(variant) : Cardinality(Requests(s)) <= 1
            /\ \A s \in Stages \ StagesOf(variant) : Requests(s) = {}
            /\ At("time.sleep") = {}
            /\ pc = "done" => HappyCompleted)
    /\ <>(~HappySoFar \/ pc = "done")

\* a complete happy run of newsapp.py on the page of 120 characters
C17_Witness ==
    /\ HappySoFar
    /\ HappyCompleted
    /\ variant = "newsapp"
    /\ noisy_article_text = Str(A(120))

\* a complete happy run of newsapp2.py
C17_WitnessDelegated ==
    /\ HappySoFar
    /\ HappyCompleted
    /\ variant = "newsapp2"

-----------------------------------------------------------------------------
(* One run after the other.                                                *)

\* the HTTP requests of a log, with their answers
FetchesOf(l) == SelectSeq(l, LAMBDA e : e.ev = "requests.get")

ClientFailedIn(l) == \E i \in DOMAIN l : l[i] = Ev("st.error", "client_init_failed")

\* the current run has the inputs and the external answers of the k-th
\* finished run
SameInputsAndAnswers(k) ==
    /\ past[k].news_url = news_url
    /\ past[k].gemini_api_key = gemini_api_key
    /\ FetchesOf(past[k].log) = FetchesOf(log)
    /\ ClientFailedIn(past[k].log) <=> ClientFailedIn(log)
    /\ past[k].hist = hist

\* the text get_article_text returned in this run, from this run's answer
OwnNoisyText ==
    IF At("requests.get") = {} THEN None
    ELSE get_article_text(log[CHOOSE i \in At("requests.get") : TRUE].answer).text

\* the first generation stage of this run has returned and was handled
FirstStageHandled ==
    /\ ret[FirstStage(variant)] # Pending
    /\ ~(pc = "ret" /\ stage = FirstStage(variant))

\* the cleaned text of this run, from this run's answers
OwnCleanText ==
    IF ~FirstStageHandled THEN None
    ELSE IF HasText(ret[FirstStage(variant)])
         THEN Str(strip(ret[FirstStage(variant)].text.s))
    ELSE IF variant = "newsapp" THEN OwnNoisyText
    ELSE None

\* the fetch of the current run failed and the failure was handled
FetchFailedNow ==
    FetchFailedLocal \/ (FetchFailedDelegated /\ FirstStageHandled)

\* C18: in a session of several runs, (1) the texts of the current run and
\* the texts its requests embed come from the current run's own answers, and
\* are None until the run has produced them; (2) a finished run with the
\* inputs and the external answers of an earlier run has the outcome of that
\* run: position, screen, texts, returns, waits; (3) when an earlier run on
\* the same URL was complete and the fetch of the current run fails, the
\* current run is stopped with the fetch error and shows no artifact, and
\* the earlier run is still complete with its text, its summary request and
\* its vocabulary request on record; (4) what a finished run left behind
\* never changes.
C18_RunIndependence ==
    /\ [](/\ noisy_article_text = OwnNoisyText
          /\ clean_article_text = OwnCleanText
          /\ \A i \in Requests("clean") : log[i].arg.text = OwnNoisyText
          /\ \A i \in Requests("summary") \cup Requests("vocab") :
                log[i].arg.text = OwnCleanText
          /\ \A k \in DOMAIN past :
                /\ (Terminal /\ SameInputsAndAnswers(k)) =>
                      /\ past[k].pc = pc
                      /\ past[k].log = log
                      /\ past[k].noisy_article_text = noisy_article_text
                      /\ past[k].clean_article_text = clean_article_text
                      /\ past[k].ret = ret
                      /\ past[k].sleeps = sleeps
                /\ (past[k].pc = "done" /\ past[k].news_url = news_url
                      /\ FetchFailedNow) =>
                      /\ pc = "stopped"
                      /\ log[Len(log)].ev = "st.error"
                      /\ log[Len(log)].arg \in FetchErrors \cup {"extract_failed"}
                      /\ NoDownstream
                      /\ Truthy(past[k].clean_article_text)
                      /\ \E i \in DOMAIN past[k].log :
                            /\ past[k].log[i].ev = "st.text_area"
                            /\ past[k].log[i].arg = past[k].clean_article_text
                      /\ past[k].ret["summary"] # Pending
                      /\ past[k].ret["vocab"] # Pending)
    /\ [][/\ \A k \in DOMAIN past : k \in DOMAIN past' /\ past'[k] = past[k]
          /\ past' # past => Terminal /\ past' = Append(past, RunOutcome)]_vars

\* newsapp.py: the first run was complete with its three artifacts, the second
\* run, on the same URL, got no connection and is stopped
C18_Witness ==
    /\ variant = "newsapp"
    /\ Len(past) = 1
    /\ past[1].pc = "done"
    /\ \E i \in DOMAIN past[1].log : past[1].log[i].ev = "st.dataframe"
    /\ \E i \in DOMAIN past[1].log : past[1].log[i].ev = "st.markdown"
    /\ past[1].news_url = news_url
    /\ FetchFailedNow
    /\ pc = "stopped"

\* two complete runs of newsapp2.py with the same inputs and answers
C18_WitnessSame ==
    /\ variant = "newsapp2"
    /\ Len(past) = 1
    /\ pc = "done"
    /\ SameInputsAndAnswers(1)
    /\ At("st.dataframe") # {}

-----------------------------------------------------------------------------
(* The order of the stages.                                                *)

\* the generation stages of the run's variant, in the claimed order
StageOrder ==
    IF variant = "newsapp" THEN <<"clean", "summary", "vocab">>
    ELSE <<"extract", "summary", "vocab">>

\* the place of a stage in that order
Place(s) == CHOOSE n \in 1..3 : StageOrder[n] = s

\* position h of the log holds the output that ends the handling of the
\* result of stage s
HandledAt(h, s) ==
    CASE s \in {"clean", "extract"} -> log[h].ev = "st.text_area"
      [] s = "summary" ->
           \/ log[h].ev = "st.markdown"
           \/ log[h].ev = "st.error" /\ log[h].arg = "summary_failed"
      [] OTHER -> FALSE

\* the controller's invocation for stage s has started and not returned
Open(s) == hist[s] # <<>> /\ ret[s] = Pending

\* C19: the generation requests of a run are those of its variant's stages,
\* in the order clean (or fetch-and-clean), summary, vocabulary: a stage's
\* requests all come after the previous stage's controller has returned and
\* its result was handled on the screen, and after every request of the
\* previous stage; at most one invocation of the controller is open, it is
\* the one of the current stage, and the script is then between two attempts
\* of it; a stage whose controller has returned gets no further request.
C19_StageOrder ==
    /\ \A s \in Stages :
          /\ Requests(s) # {} => \E n \in 1..3 : StageOrder[n] = s
          /\ Cardinality(Requests(s)) = Len(hist[s])
          /\ Open(s) => stage = s /\ pc \in {"sleep", "call"}
          /\ ret[s] # Pending => ~(stage = s /\ pc \in {"sleep", "call"})
    /\ \A s, t \in Stages : (Open(s) /\ Open(t)) => s = t
    /\ LET requests == SelectSeq(log, LAMBDA e : e.ev = "generate_content")
       IN \A k \in 1..(Len(requests) - 1) :
             Place(requests[k].arg.stage) <= Place(requests[k + 1].arg.stage)
    /\ \A n \in 2..3 :
          hist[StageOrder[n]] # <<>> =>
              /\ ret[StageOrder[n - 1]] # Pending
              /\ \E h \in DOMAIN log :
                    /\ HandledAt(h, StageOrder[n - 1])
                    /\ \A j \in 1..h : ~IsRequest(j, StageOrder[n])
    /\ \A i \in At("time.sleep") :
          \* a wait lies between two requests of one stage
          i < Len(log) =>
              /\ log[i + 1].ev = "generate_content"
              /\ log[i - 2].ev = "generate_content"
              /\ log[i + 1].arg.stage = log[i - 2].arg.stage

\* newsapp.py: the clean request was retried once, the summary request three
\* times in vain, and the vocabulary request has been issued
C19_Witness ==
    /\ variant = "newsapp"
    /\ Len(hist["clean"]) = 2
    /\ Len(hist["summary"]) = 3
    /\ ret["summary"] = None
    /\ Requests("vocab") # {}

-----------------------------------------------------------------------------
(* Termination and the number of calls.                                    *)

RECURSIVE Sum(_)
Sum(q) == IF q = <<>> THEN 0 ELSE q[1] + Sum(Tail(q))

\* C20: when every blocking call returns or raises, a run reaches st.stop()
\* or the script's last line; and at every moment it has issued at most
\* max_retries = 3 generation requests per stage and 9 in all, has waited at
\* most twice per stage and for at most 1 + 2 = 3 seconds per stage, and has
\* issued at most one HTTP GET.
C20_TerminationAndBounds ==
    /\ <>(pc \in {"stopped", "done"})
    /\ [](/\ \A s \in Stages :
                /\ Cardinality(Requests(s)) <= max_retries
                /\ Len(hist[s]) <= 3
                /\ Cardinality(Waits(s)) <= 2
                /\ Len(sleeps[s]) <= 2
                /\ Sum(sleeps[s]) <= 1 + 2
          /\ Cardinality(At("generate_content")) <= 9
          /\ Cardinality(At("time.sleep")) <= 6
          /\ Cardinality(At("requests.get")) <= 1)

\* newsapp.py at its last line after nine generation requests and six waits
C20_Witness ==
    /\ pc = "done"
    /\ Cardinality(At("requests.get")) = 1
    /\ Cardinality(At("generate_content")) = 9
    /\ \A s \in {"clean", "summary", "vocab"} : sleeps[s] = <<1, 2>>

-----------------------------------------------------------------------------
(* The retry controller for any max_retries.                               *)

\* C21: in an invocation of make_gemini_call_with_retry with max_retries
\* from 1 to MaxAttempts, whatever the outcomes of the attempts: at most
\* max_retries requests are issued; every attempt before the latest ended in
\* a transient error, so none follows a success or another error; the waits
\* so far are 1, 2, 4, ..., one after each attempt but the latest, fewer than
\* max_retries of them, none after the last attempt; and the controller
\* returns the response if its last attempt succeeded and None otherwise.
C21_ControllerAnyOutcomes ==
    LET h == hist[stage]
        n == Len(hist[stage])
        w == sleeps[stage]
    IN /\ n <= max_retries_arg
       /\ Cardinality(At("generate_content")) = n
       /\ \A k \in 1..(n - 1) : h[k].kind = "APIError"
       /\ w = Doubling(Len(w))
       /\ Len(w) <= max_retries_arg - 1
       /\ Cardinality(At("time.sleep")) = Len(w)
       /\ \A i \in At("time.sleep") :
             log[i].arg = 2 ^ (Cardinality({j \in At("generate_content") : j < i}) - 1)
       /\ pc = "call" => Len(w) = n /\ attempt = n /\ n < max_retries_arg
       /\ pc = "sleep" =>
             /\ Len(w) = n - 1
             /\ n < max_retries_arg
             /\ h[n].kind = "APIError"
       /\ pc = "ret" =>
             /\ n >= 1
             /\ Len(w) = n - 1
             /\ ret[stage] = response
             /\ h[n].kind = "Response" => response = Response(h[n].text)
             /\ h[n].kind # "Response" => response = None
             /\ h[n].kind = "APIError" => n = max_retries_arg
       /\ pc \in {"call", "sleep", "ret"}

\* max_retries = 4: three transient errors, waits of 1, 2 and 4, then a
\* response, which is returned
C21_Witness ==
    /\ max_retries_arg = 4
    /\ pc = "ret"
    /\ Len(hist[stage]) = 4
    /\ hist[stage][4].kind = "Response"
    /\ sleeps[stage] = <<1, 2, 4>>
    /\ response.ty = "Response"

\* max_retries = 1: one transient error, no wait, None returned
C21_WitnessOne ==
    /\ max_retries_arg = 1
    /\ pc = "ret"
    /\ hist[stage] = <<APIError>>
    /\ sleeps[stage] = <<>>
    /\ response = None

-----------------------------------------------------------------------------
(* The text the summary and the vocabulary requests embed.                 *)

\* C22, as claimed: the summary and the vocabulary requests of a run all
\* embed one and the same text, a str of at least 50 characters, which is
\* the stripped text of the clean (or fetch-and-clean) response or, when the
\* clean step failed, the text get_article_text returned.
C22_CleanTextNonEmpty ==
    \A i \in Requests("summary") \cup Requests("vocab") :
        /\ log[i].arg.text = clean_article_text
        /\ Truthy(log[i].arg.text)
        /\ len(log[i].arg.text.s) >= 50
        /\ \/ /\ HasText(ret[FirstStage(variant)])
              /\ log[i].arg.text = Str(strip(ret[FirstStage(variant)].text.s))
           \/ /\ variant = "newsapp"
              /\ ~HasText(ret["clean"])
              /\ log[i].arg.text = noisy_article_text

====
